---- MODULE Spec2Model ----
(***************************************************************************)
(* State-machine model of timew-celoxis (src/src/main.rs,                  *)
(* src/src/celoxis.rs): the tag grouping engine, the local cache of the    *)
(* reference-data client, the reading of the export and of data-file       *)
(* lines, and the interactive assignment loop of main with its submission. *)
(*                                                                         *)
(* Conventions.  Option<T> is a sequence of length at most one: None is    *)
(* <<>> and Some(x) is <<x>>.  A HashMap is a function with a finite       *)
(* domain.  Instants are whole seconds since the epoch, calendar dates are *)
(* whole days since the epoch.  Tag strings are numbered in their          *)
(* lexicographic order: tag 1 is "a", tag 2 is "b".                        *)
(***************************************************************************)
EXTENDS Integers, Sequences, FiniteSets, TLC

VARIABLES
    entries,   \* TimeData.entries: the Vec<TimeEntry> read from the export
    tz,        \* offset in seconds of the Local timezone from UTC
    now,       \* the wall clock read by Utc::now()
    grouped,   \* Option of the latest group_entries_by_tags result and its clock
    earlier,   \* Option of the result of the call before that one
    cache,     \* CeloxisApi.cache: Option<CacheData>
    disk,      \* the cache file: None when absent, else the document it holds
    ret,       \* the outcome of the latest CeloxisApi call of this run
    pc,                \* where main stands
    grouped_entries,   \* main: the pool of groups not assigned yet
    assignments,       \* main: Vec<TaskAssignment>
    selected_groups,   \* main: the groups picked in the current iteration
    skipped,           \* main: the project prompt of this iteration was cancelled
    cached_projects,   \* CeloxisData.cached_projects
    selected_project,  \* CeloxisData.selected_project
    selected_tasks,    \* CeloxisData.selected_tasks
    user_prefs,        \* main: the UserPreferences got at start
    task_picked,       \* main: the task prompt of this iteration returned a task
    submission,        \* main: Option of the batch posted and the remote's answer
    export,            \* the JSON array printed by `timew export`
    time_entries,      \* Option of the Result of TimeData::read_time_entries
    line,              \* a line of a TimeWarrior data file
    parsed             \* Option of the Result of TimeEntry::from_timewarrior

gvars == <<entries, tz, grouped, earlier>>
cvars == <<cache, disk, ret>>
mvars == <<pc, grouped_entries, assignments, selected_groups, skipped,
           cached_projects, selected_project, selected_tasks, user_prefs,
           task_picked, submission>>
ivars == <<export, time_entries, line, parsed>>
vars == <<entries, tz, now, grouped, earlier, cache, disk, ret, pc,
          grouped_entries, assignments, selected_groups, skipped,
          cached_projects, selected_project, selected_tasks, user_prefs,
          task_picked, submission, export, time_entries, line, parsed>>

None == <<>>
Some(x) == <<x>>

\* ------------------------------------------------------------------ bounds
MaxEntries == 2
MaxTicks == 2
MaxProjects == 2
MaxTasks == 1
MaxMainEntries == 2
MaxRecords == 2
MaxLineTags == 2

\* ----------------------------------------------------- program constants
SecondsPerMinute == 60
SecondsPerDay == 86400
SecondsPerHour == 3600

\* ------------------------------------------------------------ input sets
\* Tag vectors as stored on an entry (insertion order, duplicates kept).
TagVecs == {<<>>, <<1>>, <<1, 1>>, <<1, 2>>, <<2, 1>>}

\* The clock when the run starts: 00:02:00 UTC of day 1.
NowStart == SecondsPerDay + 2 * SecondsPerMinute
TickSeconds == SecondsPerMinute \div 2

\* start/end pairs: a closed interval of 90 s that begins 23:30 UTC of day 0,
\* an interval with start = end, an open interval begun a minute before
\* NowStart, an open interval whose start lies 30 s after NowStart.
ClosedInterval ==
    [start |-> SecondsPerDay - 1800, end |-> Some(SecondsPerDay - 1710)]
EmptyInterval == [start |-> SecondsPerDay + 30, end |-> Some(SecondsPerDay + 30)]
OpenInterval == [start |-> NowStart - SecondsPerMinute, end |-> None]
FutureOpenInterval == [start |-> NowStart + 30, end |-> None]

\* The (interval, tags) pairs an exported record is drawn from.
EntryShapes ==
    ({ClosedInterval} \X TagVecs)
    \cup ({EmptyInterval} \X {<<>>, <<1>>, <<1, 2>>})
    \cup ({OpenInterval, FutureOpenInterval} \X {<<>>, <<1>>})

TzOffsets == {0, SecondsPerHour}

\* TimeEntry (annotation and celoxis_id carry no behaviour and are left out).
TimeEntry(id, iv, tags) ==
    [id |-> id, start |-> iv.start, end |-> iv.end, tags |-> tags,
     submitted |-> FALSE]

\* read_time_entries numbers the entries "export-<idx>" in export order.
EntryLists ==
    UNION { { [i \in 1..n |-> TimeEntry(i - 1, f[i][1], f[i][2])] :
                f \in [1..n -> EntryShapes] } : n \in 0..MaxEntries }

\* ------------------------------------------------------- grouping engine
\* chrono Duration::num_minutes: whole minutes, truncated toward zero.
num_minutes_floor(secs) == secs \div SecondsPerMinute
num_minutes(secs) ==
    IF secs >= 0 THEN secs \div SecondsPerMinute
    ELSE -((-secs) \div SecondsPerMinute)

\* TimeData::to_local_date: the calendar date of the instant in Local time.
to_local_date(utc, off) == (utc + off) \div SecondsPerDay

\* Vec::sort on the cloned tag vector (stable, duplicates kept).
InsertTag(x, s) ==
    LET k == Cardinality({i \in 1..Len(s) : s[i] <= x})
    IN  SubSeq(s, 1, k) \o <<x>> \o SubSeq(s, k + 1, Len(s))

RECURSIVE SortTags(_)
SortTags(tags) ==
    IF tags = <<>> THEN <<>>
    ELSE InsertTag(tags[Len(tags)], SortTags(SubSeq(tags, 1, Len(tags) - 1)))

\* The key of the outer HashMap.
unsorted_key(entry) == entry.tags
sorted_tags(entry) == SortTags(entry.tags)

\* groups.entry(sorted_tags).or_insert_with(HashMap::new)
\*       .entry(entry_date).or_insert_with(Vec::new).push(entry)
push_replacing(groups, entry, off) ==
    LET k == sorted_tags(entry)
        d == to_local_date(entry.start, off)
        cells == IF k \in DOMAIN groups THEN groups[k] ELSE <<>>
    IN  [x \in (DOMAIN groups) \cup {k} |->
            IF x = k
            THEN [y \in (DOMAIN cells) \cup {d} |->
                    IF y = d THEN <<entry>> ELSE cells[y]]
            ELSE groups[x]]
push_first_only(groups, entry, off) ==
    LET k == sorted_tags(entry)
        d == to_local_date(entry.start, off)
        cells == IF k \in DOMAIN groups THEN groups[k] ELSE <<>>
    IN  [x \in (DOMAIN groups) \cup {k} |->
            IF x = k
            THEN [y \in (DOMAIN cells) \cup {d} |->
                    IF y \in DOMAIN cells THEN cells[y] ELSE <<entry>>]
            ELSE groups[x]]
push_entry(groups, entry, off) ==
    LET k == sorted_tags(entry)
        d == to_local_date(entry.start, off)
        cells == IF k \in DOMAIN groups THEN groups[k] ELSE <<>>
        vec == IF d \in DOMAIN cells THEN cells[d] ELSE <<>>
    IN  [x \in (DOMAIN groups) \cup {k} |->
            IF x = k
            THEN [y \in (DOMAIN cells) \cup {d} |->
                    IF y = d THEN Append(vec, entry) ELSE cells[y]]
            ELSE groups[x]]

\* The first loop of group_entries_by_tags, over the entries in order.
RECURSIVE GroupFold(_, _)
GroupFold(es, off) ==
    IF es = <<>> THEN <<>>
    ELSE push_entry(GroupFold(SubSeq(es, 1, Len(es) - 1), off), es[Len(es)], off)

\* (end - entry.start).num_minutes() with end = entry.end or Utc::now().
entry_minutes_closed_only(entry, clock) ==
    IF entry.end = None THEN 0 ELSE num_minutes(entry.end[1] - entry.start)
entry_minutes(entry, clock) ==
    LET end == IF entry.end = None THEN clock ELSE entry.end[1]
    IN  num_minutes(end - entry.start)

\* .map(..).sum() over the entries of one date cell.
RECURSIVE SumMinutes(_, _)
SumMinutes(vec, clock) ==
    IF vec = <<>> THEN 0
    ELSE SumMinutes(SubSeq(vec, 1, Len(vec) - 1), clock)
         + entry_minutes(vec[Len(vec)], clock)

\* One GroupedEntry, built from an outer-map item.
GroupedEntry(tags, cells, clock) ==
    [tags |-> tags,
     total_duration |-> [d \in DOMAIN cells |-> SumMinutes(cells[d], clock)],
     entries |-> cells,
     all_submitted |->
        \A d \in DOMAIN cells : \A i \in 1..Len(cells[d]) : cells[d][i].submitted]

\* TimeData::group_entries_by_tags.  The order of the returned Vec is the
\* iteration order of a HashMap, which is unspecified: the result is given
\* as the set of its elements, and a caller that needs the Vec takes any
\* ordering of it.
group_entries_by_tags(es, clock, off) ==
    LET groups == GroupFold(es, off)
    IN  { GroupedEntry(k, groups[k], clock) : k \in DOMAIN groups }

\* ------------------------------------------------ reference-data cache
ProjectIds == {"p1", "p2"}
\* CeloxisProject and CeloxisTask (description and state are carried along
\* unread and are left out).
ProjectUniverse == { [id |-> "p1", name |-> "Alpha"], [id |-> "p2", name |-> "beta"] }
TaskUniverse == { [id |-> "t1", name |-> "Write"], [id |-> "t2", name |-> "review"] }
\* UserPreferences typed at the two prompts of ensure_user_prefs.
PrefsUniverse == { [username |-> "alice", time_code |-> "engineering_labor"] }

SeqsUpTo(S, n) == UNION { [1..k -> S] : k \in 0..n }
\* CeloxisResponse.data of GET /projects and of GET /tasks.
ProjectResponses == SeqsUpTo(ProjectUniverse, MaxProjects)
TaskResponses == SeqsUpTo(TaskUniverse, MaxTasks)

Range(f) == { f[x] : x \in DOMAIN f }

\* load_cache when the file is absent.
EmptyCache(clock) ==
    [projects |-> <<>>, tasks |-> <<>>, last_updated |-> clock, user_prefs |-> None]

\* load_cache: the file parsed, or the empty default.
load_cache(file, clock) ==
    IF file # None THEN Some(file[1]) ELSE Some(EmptyCache(clock))

\* save_cache: the document written by fs::write (the whole CacheData).
save_cache_without_prefs(c) == Some([c[1] EXCEPT !.user_prefs = None])
save_cache(c) == Some(c[1])

\* get_projects: the early return, taken when the call is not forced and
\* self.cache is Some.
projects_from_cache(c, force_refresh) == ~force_refresh /\ c # None

\* cache.projects.clear(); then insert every project of the response by id,
\* a later one replacing an earlier one with the same id; last_updated = now.
merge_projects(c, data, clock) ==
    [c EXCEPT !.projects =
                [id \in (DOMAIN c.projects) \cup { data[i].id : i \in 1..Len(data) } |->
                    IF \E i \in 1..Len(data) : data[i].id = id
                    THEN data[CHOOSE i \in 1..Len(data) :
                                /\ data[i].id = id
                                /\ \A j \in (i + 1)..Len(data) : data[j].id # id]
                    ELSE c.projects[id]],
              !.last_updated = clock]
replace_projects(c, data, clock) ==
    [c EXCEPT !.projects =
                [id \in { data[i].id : i \in 1..Len(data) } |->
                    data[CHOOSE i \in 1..Len(data) :
                            /\ data[i].id = id
                            /\ \A j \in (i + 1)..Len(data) : data[j].id # id]],
              !.last_updated = clock]

\* cache.tasks.insert(project_id, response.data.clone()); last_updated = now.
insert_tasks_only(c, project_id, data, clock) ==
    [c EXCEPT !.tasks = [p \in {project_id} |-> data], !.last_updated = clock]
insert_tasks(c, project_id, data, clock) ==
    [c EXCEPT !.tasks = [p \in (DOMAIN c.tasks) \cup {project_id} |->
                            IF p = project_id THEN data ELSE c.tasks[p]],
              !.last_updated = clock]

\* get_cached_tasks
get_cached_tasks(c, project_id) ==
    IF c # None /\ project_id \in DOMAIN c[1].tasks
    THEN Some(c[1].tasks[project_id]) ELSE None

\* The clock once a remote request has been answered (Utc::now() is read
\* after the response has arrived).
AfterRequest(clock) ==
    IF clock < NowStart + MaxTicks * TickSeconds THEN clock + TickSeconds ELSE clock

\* The outcome of a call: its arguments, whether it returned Ok, how many
\* remote requests it sent, whether the cache held what was asked for when
\* it was called, the response body received and the value returned.
Outcome(op, force, pid, ok, fetched, had, response, value) ==
    [op |-> op, force_refresh |-> force, project_id |-> pid, ok |-> ok,
     fetched |-> fetched, cached |-> had, response |-> response, value |-> value]
NoCall == Outcome("none", FALSE, "", TRUE, 0, FALSE, None, None)

\* Every call site propagates an Err with `?` up to main, which ends the
\* run: after an Err only a new run follows.
Running == ret.ok

\* The orderings of a set: the Vecs a HashMap iteration can yield.
Orderings(S) ==
    { f \in [1..Cardinality(S) -> S] : \A i, j \in 1..Cardinality(S) : f[i] = f[j] => i = j }

\* CeloxisApi::get_projects
get_projects(force_refresh) ==
    /\ LET had == cache # None /\ DOMAIN cache[1].projects # {}
           clock == AfterRequest(now)
       IN  IF projects_from_cache(cache, force_refresh)
           THEN \E v \in Orderings(Range(cache[1].projects)) :
                    /\ ret' = Outcome("get_projects", force_refresh, "", TRUE, 0,
                                      had, None, Some(v))
                    /\ UNCHANGED <<cache, disk, now>>
           ELSE \/ \* send()? or json()? fails
                   /\ ret' = Outcome("get_projects", force_refresh, "", FALSE, 1,
                                     had, None, None)
                   /\ now' = clock
                   /\ UNCHANGED <<cache, disk>>
                \/ \E data \in ProjectResponses : \E written \in BOOLEAN :
                      LET c == IF cache # None
                               THEN Some(replace_projects(cache[1], data, clock))
                               ELSE cache
                      IN  /\ now' = clock
                          /\ cache' = c
                          /\ disk' = IF c # None /\ written THEN save_cache(c) ELSE disk
                          /\ ret' = Outcome("get_projects", force_refresh, "",
                                            c = None \/ written, 1, had, Some(data),
                                            IF c = None \/ written THEN Some(data) ELSE None)

\* CeloxisApi::get_tasks: the ways a call can end, each with the cache, the
\* file and the clock it leaves and its outcome.
get_tasks_results(project_id, force_refresh) ==
    LET hit == get_cached_tasks(cache, project_id)
        clock == AfterRequest(now)
        Result(c, file, t, ok, fetched, response, value) ==
            [cache |-> c, disk |-> file, now |-> t,
             ret |-> Outcome("get_tasks", force_refresh, project_id, ok, fetched,
                             hit # None, response, value)]
    IN  IF ~force_refresh /\ hit # None
        THEN { Result(cache, disk, now, TRUE, 0, None, hit) }
        ELSE \* send()? or json()? fails
             { Result(cache, disk, clock, FALSE, 1, None, None) }
             \cup
             { LET c == IF cache # None
                        THEN Some(insert_tasks(cache[1], project_id, data, clock))
                        ELSE cache
                   ok == c = None \/ written
               IN  Result(c, IF c # None /\ written THEN save_cache(c) ELSE disk,
                          clock, ok, 1, Some(data), IF ok THEN Some(data) ELSE None) :
               data \in TaskResponses, written \in BOOLEAN }

get_tasks(project_id, force_refresh) ==
    \E r \in get_tasks_results(project_id, force_refresh) :
        /\ cache' = r.cache
        /\ disk' = r.disk
        /\ now' = r.now
        /\ ret' = r.ret

\* CeloxisApi::ensure_user_prefs
ensure_user_prefs ==
    /\ IF cache # None /\ cache[1].user_prefs # None
       THEN /\ ret' = Outcome("ensure_user_prefs", FALSE, "", TRUE, 0, TRUE, None,
                              cache[1].user_prefs)
            /\ UNCHANGED <<cache, disk>>
       ELSE \/ \* a prompt fails or is cancelled
               /\ ret' = Outcome("ensure_user_prefs", FALSE, "", FALSE, 0, FALSE,
                                 None, None)
               /\ UNCHANGED <<cache, disk>>
            \/ \E prefs \in PrefsUniverse : \E written \in BOOLEAN :
                  LET c == IF cache # None
                           THEN Some([cache[1] EXCEPT !.user_prefs = Some(prefs)])
                           ELSE cache
                  IN  /\ cache' = c
                      /\ disk' = IF c # None /\ written THEN save_cache(c) ELSE disk
                      /\ ret' = Outcome("ensure_user_prefs", FALSE, "",
                                        c = None \/ written, 0, FALSE, None,
                                        IF c = None \/ written THEN Some(prefs) ELSE None)
    /\ UNCHANGED now

\* The calls as made by a caller that stops at the first Err.
GetProjects(force_refresh) ==
    Running /\ get_projects(force_refresh) /\ UNCHANGED <<gvars, ivars, mvars>>
GetTasks(project_id, force_refresh) ==
    Running /\ get_tasks(project_id, force_refresh) /\ UNCHANGED <<gvars, ivars, mvars>>
EnsureUserPrefs ==
    Running /\ ensure_user_prefs /\ UNCHANGED <<gvars, ivars, mvars>>

\* CeloxisApi::new of the next run of the program: the cache is loaded from
\* the file the earlier runs left.
NewRun ==
    /\ cache' = load_cache(disk, now)
    /\ ret' = NoCall
    /\ UNCHANGED <<disk, now, gvars, ivars, mvars>>

\* Time passes between two calls.
Tick ==
    /\ now < NowStart + MaxTicks * TickSeconds
    /\ now' = now + TickSeconds
    /\ UNCHANGED <<gvars, ivars, cvars, mvars>>

CacheIdle == cache = None /\ disk = None /\ ret = NoCall
GroupIdle == entries = <<>> /\ tz = 0 /\ grouped = None /\ earlier = None
MainIdle ==
    /\ pc = "idle" /\ grouped_entries = <<>> /\ assignments = <<>>
    /\ selected_groups = <<>> /\ skipped = FALSE /\ cached_projects = None
    /\ selected_project = None /\ selected_tasks = <<>> /\ user_prefs = None
    /\ task_picked = FALSE /\ submission = None
InputIdle == export = <<>> /\ time_entries = None /\ line = <<>> /\ parsed = None

\* The first run, on a machine without a cache file.
CacheInit ==
    /\ GroupIdle
    /\ MainIdle
    /\ InputIdle
    /\ now = NowStart
    /\ disk = None
    /\ cache = load_cache(None, NowStart)
    /\ ret = NoCall

CacheNext ==
    \/ NewRun
    \/ \E force_refresh \in BOOLEAN : GetProjects(force_refresh)
    \/ \E project_id \in ProjectIds : \E force_refresh \in BOOLEAN :
            GetTasks(project_id, force_refresh)
    \/ EnsureUserPrefs

SpecCache == CacheInit /\ [][CacheNext]_vars

\* --------------------------------------------- specification: grouping
GroupInit ==
    /\ entries \in EntryLists
    /\ tz \in TzOffsets
    /\ now = NowStart
    /\ grouped = None
    /\ earlier = None
    /\ CacheIdle
    /\ MainIdle
    /\ InputIdle

\* time_data.group_entries_by_tags(time_data.entries.iter().collect())
GroupEntries ==
    /\ grouped' = Some([at |-> now,
                        groups |-> group_entries_by_tags(entries, now, tz)])
    /\ earlier' = grouped
    /\ UNCHANGED <<entries, tz, now, cvars, mvars, ivars>>

GroupNext == Tick \/ GroupEntries

SpecGroup == GroupInit /\ [][GroupNext]_vars

\* --------------------------------- specification: reading the export
\* A value of the export's JSON: its type and, for a string, the format of
\* the timestamp it spells and the instant meant.
JsonAbsent == [type |-> "absent", format |-> "none", instant |-> 0]
JsonNumber == [type |-> "number", format |-> "none", instant |-> 0]
JsonString(format, instant) == [type |-> "string", format |-> format, instant |-> instant]
\* An element of the export array; tag 0 is a tag that is not a JSON string.
JsonRecord(object, start, end, tags) ==
    [object |-> object, start |-> start, end |-> end, tags |-> tags]
WellFormedRecords ==
    { JsonRecord(TRUE, JsonString("compact", SecondsPerDay - 1800),
                 JsonString("compact", SecondsPerDay - 1710), <<1>>),
      JsonRecord(TRUE, JsonString("rfc3339", SecondsPerDay + 30), JsonAbsent, <<1, 0>>) }
MalformedRecords ==
    { JsonRecord(TRUE, JsonAbsent, JsonAbsent, <<1>>),
      JsonRecord(TRUE, JsonNumber, JsonAbsent, <<1>>),
      JsonRecord(TRUE, JsonString("garbage", 0), JsonAbsent, <<1>>),
      JsonRecord(TRUE, JsonString("compact", SecondsPerDay - 1800),
                 JsonString("garbage", 0), <<1>>),
      JsonRecord(TRUE, JsonString("compact", SecondsPerDay - 1800), JsonNumber, <<1>>),
      JsonRecord(FALSE, JsonAbsent, JsonAbsent, <<>>) }
Exports == SeqsUpTo(WellFormedRecords \cup MalformedRecords, MaxRecords)

Ok(x) == [ok |-> TRUE, value |-> <<x>>]
Err == [ok |-> FALSE, value |-> <<>>]

\* DateTime::parse_from_rfc3339, and on its Err
\* NaiveDateTime::parse_from_str(.., "%Y%m%dT%H%M%SZ")?
parse_timestamp(text) ==
    IF text.format = "rfc3339" THEN Ok(text.instant)
    ELSE IF text.format = "compact" THEN Ok(text.instant)
    ELSE Err
\* entry_obj.get("start").and_then(|v| v.as_str()).ok_or(..)?, then the parse
parse_start(record) ==
    IF record.start.type # "string" THEN Err ELSE parse_timestamp(record.start)
\* match entry_obj.get("end"): None for an absent key, else as_str()? and
\* the parse
parse_end(record) ==
    IF record.end.type = "absent" THEN Ok(None)
    ELSE IF record.end.type # "string" THEN Err
    ELSE LET end == parse_timestamp(record.end)
         IN  IF end.ok THEN Ok(Some(end.value[1])) ELSE Err
\* arr.iter().filter_map(|v| v.as_str())
string_tags(tags) == SelectSeq(tags, LAMBDA t : t # 0)
\* One turn of the loop of read_time_entries on the element at index idx.
parse_record(record, idx) ==
    IF ~record.object THEN Err
    ELSE LET start == parse_start(record)
             end == parse_end(record)
         IN  IF ~start.ok \/ ~end.ok THEN Err
             ELSE Ok(TimeEntry(idx, [start |-> start.value[1], end |-> end.value[1]],
                               string_tags(record.tags)))
\* TimeData::read_time_entries: every failure inside the loop leaves the
\* function with `?`.
RECURSIVE read_time_entries(_)
read_time_entries(records) ==
    IF records = <<>> THEN Ok(<<>>)
    ELSE LET before == read_time_entries(SubSeq(records, 1, Len(records) - 1))
             entry == parse_record(records[Len(records)], Len(records) - 1)
         IN  IF ~before.ok THEN Err
             ELSE IF ~entry.ok THEN Err
             ELSE Ok(Append(before.value[1], entry.value[1]))

ReadInit ==
    /\ export \in Exports
    /\ time_entries = None
    /\ line = <<>>
    /\ parsed = None
    /\ now = NowStart
    /\ GroupIdle
    /\ CacheIdle
    /\ MainIdle

\* TimeData::new as called by main: `TimeData::new(&date_range)?`.
TimeDataNew ==
    /\ pc = "idle"
    /\ time_entries' = Some(read_time_entries(export))
    /\ entries' = IF time_entries'[1].ok THEN time_entries'[1].value[1] ELSE entries
    /\ pc' = IF time_entries'[1].ok THEN "entries_read" ELSE "error"
    /\ UNCHANGED <<export, line, parsed, now, tz, grouped, earlier, cvars,
                   grouped_entries, assignments, selected_groups, skipped,
                   cached_projects, selected_project, selected_tasks, user_prefs,
                   task_picked, submission>>

ReadNext == TimeDataNew

SpecRead == ReadInit /\ [][ReadNext]_vars

\* ------------------------------ specification: parsing a data-file line
\* A line is a sequence of characters; a timestamp of the form
\* %Y%m%dT%H%M%SZ is written as one symbol, and "x" is a character that no
\* timestamp holds.
Stamps == {"T0900", "T1100"}
StampInstant(stamp) ==
    IF stamp = "T0900" THEN SecondsPerDay + 9 * SecondsPerHour
    ELSE SecondsPerDay + 11 * SecondsPerHour
TagChars == {"a", "b"}
Quoted(tag) == <<" ", "\"">> \o tag \o <<"\"">>
RECURSIVE QuotedTags(_)
QuotedTags(tags) ==
    IF tags = <<>> THEN <<>>
    ELSE QuotedTags(SubSeq(tags, 1, Len(tags) - 1)) \o Quoted(tags[Len(tags)])
LinePrefixes == { <<"i", "n", "c", " ">>, <<>>, <<" ", "i", "n", "c", " ">> }
LineStarts == { <<"T0900">>, <<"x">> }
LineEnds ==
    { <<" ", "-">>, <<" ", "-", " ">>, <<" ", "-", " ", "T1100">>,
      <<" ", "-", " ", "x">>, <<>> }
LineTags ==
    { <<>>, <<" ", "#", " ", "a", " ", "b">>, <<" ", "#", " ", "\"", "a", " ", "b", "\"">> }
    \cup { <<" ", "#">> \o QuotedTags(tags) :
           tags \in SeqsUpTo({ <<c>> : c \in TagChars }, MaxLineTags) }
Lines ==
    { prefix \o start \o end \o tags :
      prefix \in LinePrefixes, start \in LineStarts, end \in LineEnds, tags \in LineTags }

\* str::trim
trim(text) ==
    LET solid == { i \in 1..Len(text) : text[i] # " " }
    IN  IF solid = {} THEN <<>>
        ELSE SubSeq(text, CHOOSE i \in solid : \A j \in solid : i <= j,
                          CHOOSE i \in solid : \A j \in solid : j <= i)
\* str::starts_with
starts_with(text, pattern) ==
    Len(text) >= Len(pattern) /\ SubSeq(text, 1, Len(pattern)) = pattern
\* str::find: the first position where pattern occurs in text, 0 for none.
find(text, pattern) ==
    LET hits == { i \in 1..(Len(text) - Len(pattern) + 1) :
                    SubSeq(text, i, i + Len(pattern) - 1) = pattern }
    IN  IF hits = {} THEN 0 ELSE CHOOSE i \in hits : \A j \in hits : i <= j
\* str::splitn(2, pattern)
splitn2(text, pattern) ==
    LET i == find(text, pattern)
    IN  IF i = 0 THEN <<text>>
        ELSE <<SubSeq(text, 1, i - 1), SubSeq(text, i + Len(pattern), Len(text))>>
\* str::split
RECURSIVE split(_, _)
split(text, pattern) ==
    LET i == find(text, pattern)
    IN  IF i = 0 THEN <<text>>
        ELSE <<SubSeq(text, 1, i - 1)>>
             \o split(SubSeq(text, i + Len(pattern), Len(text)), pattern)
\* NaiveDateTime::parse_from_str(text, "%Y%m%dT%H%M%SZ")
parse_from_str(text) ==
    IF Len(text) = 1 /\ text[1] \in Stamps THEN Ok(StampInstant(text[1])) ELSE Err
\* The loop over tag_str.chars() with current_tag and in_quotes, and the
\* push of the tag left at the end.
RECURSIVE scan_tags(_)
scan_tags(tag_str) ==
    IF tag_str = <<>> THEN [tags |-> <<>>, current_tag |-> <<>>, in_quotes |-> FALSE]
    ELSE LET st == scan_tags(SubSeq(tag_str, 1, Len(tag_str) - 1))
             c == tag_str[Len(tag_str)]
             flush == [st EXCEPT !.tags = Append(st.tags, st.current_tag),
                                 !.current_tag = <<>>]
         IN  IF c = "\""
             THEN IF st.in_quotes /\ st.current_tag # <<>>
                  THEN [flush EXCEPT !.in_quotes = FALSE]
                  ELSE [st EXCEPT !.in_quotes = ~st.in_quotes]
             ELSE IF c = " " /\ ~st.in_quotes
             THEN IF st.current_tag # <<>> THEN flush ELSE st
             ELSE [st EXCEPT !.current_tag = Append(st.current_tag, c)]
line_tags(tag_str) ==
    LET st == scan_tags(tag_str)
    IN  IF st.current_tag # <<>> THEN Append(st.tags, st.current_tag) ELSE st.tags

\* TimeEntry::from_timewarrior
from_timewarrior(text, entry_id) ==
    IF trim(text) = <<>> THEN Err
    ELSE IF ~starts_with(text, <<"i", "n", "c", " ">>) THEN Err
    ELSE LET parts == splitn2(text, <<"i", "n", "c", " ">>)
         IN  IF Len(parts) # 2 THEN Err
             ELSE LET interval_and_tags == splitn2(parts[2], <<"#">>)
                      interval == trim(interval_and_tags[1])
                      timestamps == split(interval, <<" ", "-", " ">>)
                  IN  IF Len(timestamps) # 2 THEN Err
                      ELSE LET start == parse_from_str(trim(timestamps[1]))
                               end == IF trim(timestamps[2]) = <<>> THEN Ok(None)
                                      ELSE LET e == parse_from_str(trim(timestamps[2]))
                                           IN  IF e.ok THEN Ok(Some(e.value[1])) ELSE Err
                               tags == IF Len(interval_and_tags) > 1
                                       THEN line_tags(trim(interval_and_tags[2]))
                                       ELSE <<>>
                           IN  IF ~start.ok \/ ~end.ok THEN Err
                               ELSE Ok(TimeEntry(entry_id,
                                                 [start |-> start.value[1],
                                                  end |-> end.value[1]], tags))

LineInit ==
    /\ line \in Lines
    /\ parsed = None
    /\ export = <<>>
    /\ time_entries = None
    /\ now = NowStart
    /\ GroupIdle
    /\ CacheIdle
    /\ MainIdle

FromTimewarrior ==
    /\ parsed = None
    /\ parsed' = Some(from_timewarrior(line, 0))
    /\ UNCHANGED <<line, export, time_entries, now, gvars, cvars, mvars>>

LineNext == FromTimewarrior

SpecLine == LineInit /\ [][LineNext]_vars

\* ------------------------------------------- specification: main loop
\* The elements of seq at the positions in S, in the order of seq.
Pick(seq, S) ==
    LET F[i \in 0..Len(seq)] ==
            IF i = 0 THEN <<>>
            ELSE IF i \in S THEN Append(F[i - 1], seq[i]) ELSE F[i - 1]
    IN  F[Len(seq)]

\* The export a run of main reads: any selection of the first
\* MaxMainEntries records of MainExport, numbered in export order.
MainExport ==
    << <<ClosedInterval, <<1>>>>, <<EmptyInterval, <<2, 1>>>>,
       <<ClosedInterval, <<1, 2>>>>, <<OpenInterval, <<>>>> >>
MainEntryLists ==
    { LET shapes == Pick(MainExport, S)
      IN  [i \in 1..Len(shapes) |-> TimeEntry(i - 1, shapes[i][1], shapes[i][2])] :
      S \in SUBSET (1..MaxMainEntries) }
\* The answer to GET /projects at the start of the run: the remote lists
\* every active project once.
MainProjectResponses ==
    { data \in ProjectResponses :
        \A i, j \in 1..Len(data) : data[i].id = data[j].id => i = j }
\* The text typed at the summary prompt (its validator refuses blank text).
Summaries == {"build"}

\* format!("{} - {}", x.id, x.name): the option shown for a project or task.
Label(x) == <<x.id, " - ", x.name>>
\* options.iter().position(|x| x == &selection).unwrap()
position(options, selection) ==
    CHOOSE i \in 1..Len(options) :
        /\ Label(options[i]) = selection
        /\ \A j \in 1..(i - 1) : Label(options[j]) # selection

\* a.name.to_lowercase().cmp(&b.name.to_lowercase()) on the task names.
LowerRank(name) == CASE name = "review" -> 1 [] name = "Write" -> 2
InsertTask(t, s) ==
    LET k == Cardinality({ i \in 1..Len(s) : LowerRank(s[i].name) <= LowerRank(t.name) })
    IN  SubSeq(s, 1, k) \o <<t>> \o SubSeq(s, k + 1, Len(s))
RECURSIVE sort_by_lower_name(_)
sort_by_lower_name(tasks) ==
    IF tasks = <<>> THEN <<>>
    ELSE InsertTask(tasks[Len(tasks)],
                    sort_by_lower_name(SubSeq(tasks, 1, Len(tasks) - 1)))

\* A merge that keeps the minutes of the last group holding a date.
RECURSIVE merge_overwriting(_)
merge_overwriting(groups) ==
    IF groups = <<>> THEN <<>>
    ELSE LET rest == merge_overwriting(SubSeq(groups, 1, Len(groups) - 1))
             g == groups[Len(groups)]
         IN  [d \in (DOMAIN rest) \cup (DOMAIN g.total_duration) |->
                IF d \in DOMAIN g.total_duration THEN g.total_duration[d] ELSE rest[d]]

\* *total_duration.entry(*date).or_insert(0) += duration, over the groups.
RECURSIVE merge_durations(_)
merge_durations(groups) ==
    IF groups = <<>> THEN <<>>
    ELSE LET rest == merge_durations(SubSeq(groups, 1, Len(groups) - 1))
             g == groups[Len(groups)]
         IN  [d \in (DOMAIN rest) \cup (DOMAIN g.total_duration) |->
                (IF d \in DOMAIN rest THEN rest[d] ELSE 0)
                + (IF d \in DOMAIN g.total_duration THEN g.total_duration[d] ELSE 0)]

\* A retain that removes nothing.
retain_all(pool, selected) == pool
\* A retain that matches groups by their first tag alone.
retain_by_first_tag(pool, selected) ==
    LET FirstTag(tags) == IF tags = <<>> THEN 0 ELSE tags[1]
        firsts == { FirstTag(selected[i].tags) : i \in 1..Len(selected) }
        Keep(group) == FirstTag(group.tags) \notin firsts
    IN  SelectSeq(pool, Keep)
\* A retain that removes only the first group picked.
retain_but_first_selected(pool, selected) ==
    LET Keep(group) == group.tags # selected[1].tags
    IN  SelectSeq(pool, Keep)

\* grouped_entries.retain(|group| !tags_to_remove.contains(&group.tags))
retain_unselected(pool, selected) ==
    LET tags_to_remove == { selected[i].tags : i \in 1..Len(selected) }
        Keep(group) == group.tags \notin tags_to_remove
    IN  SelectSeq(pool, Keep)

TaskAssignment(groups, project, task, summary, prefs) ==
    [groups |-> groups,
     total_duration |-> merge_durations(groups),
     celoxis_project |-> project,
     celoxis_task |-> task,
     summary |-> summary,
     time_code |-> prefs.time_code,
     user |-> prefs.username]

\* main up to the loop, in a run on a machine without a cache file: the
\* entries are read, CeloxisData::new loads the cache and fetches the
\* projects, the preferences are collected and saved, the entries grouped.
MainInit ==
    /\ entries \in MainEntryLists
    /\ tz \in TzOffsets
    /\ now = NowStart
    /\ grouped = None
    /\ earlier = None
    /\ \E data \in MainProjectResponses : \E prefs \in PrefsUniverse :
          /\ cache = Some([replace_projects(EmptyCache(NowStart), data, NowStart)
                             EXCEPT !.user_prefs = Some(prefs)])
          /\ disk = save_cache(cache)
          /\ ret = NoCall
          /\ cached_projects = Some(data)
          /\ user_prefs = Some(prefs)
    /\ grouped_entries \in Orderings(group_entries_by_tags(entries, now, tz))
    /\ assignments = <<>>
    /\ selected_groups = <<>>
    /\ skipped = FALSE
    /\ selected_project = None
    /\ selected_tasks = <<>>
    /\ task_picked = FALSE
    /\ submission = None
    /\ InputIdle
    /\ pc = "pooling"

\* while !grouped_entries.is_empty(), found false.
LoopExit ==
    /\ pc = "pooling"
    /\ grouped_entries = <<>>
    /\ pc' = "review"
    /\ UNCHANGED <<now, gvars, ivars, cvars, grouped_entries, assignments, selected_groups,
                   skipped, cached_projects, selected_project, selected_tasks,
                   user_prefs, task_picked, submission>>

\* The end of one turn of the loop body: its locals go out of scope.
EndIteration ==
    /\ selected_groups' = <<>>
    /\ skipped' = FALSE
    /\ task_picked' = FALSE

\* select_multiple_groups and process_selected_groups: the validator of the
\* MultiSelect refuses an empty selection, the options are told apart by
\* their "Group <n>" prefix.
SelectGroups ==
    /\ pc = "pooling"
    /\ grouped_entries # <<>>
    /\ \E S \in (SUBSET (1..Len(grouped_entries))) \ {{}} :
          selected_groups' = Pick(grouped_entries, S)
    /\ skipped' = FALSE
    /\ task_picked' = FALSE
    /\ pc' = "selecting_project"
    /\ UNCHANGED <<now, gvars, ivars, cvars, grouped_entries, assignments,
                   cached_projects, selected_project, selected_tasks, user_prefs,
                   submission>>

\* CeloxisData::select_project, then `if let Some(project) =
\* celoxis.selected_project.clone()` of main.  cached_projects is Some since
\* CeloxisData::new.  choice 0 is Esc (prompt_skippable gives Ok(None)); a
\* Select without options returns Err.
SelectProject ==
    /\ pc = "selecting_project"
    /\ LET projects == cached_projects[1]
       IN  IF projects = <<>>
           THEN /\ pc' = "error"
                /\ UNCHANGED <<selected_project, skipped>>
           ELSE \E choice \in 0..Len(projects) :
                  /\ selected_project' =
                        IF choice = 0 THEN selected_project
                        ELSE Some(projects[position(projects, Label(projects[choice]))])
                  /\ skipped' = (choice = 0)
                  /\ pc' = IF selected_project' # None
                           THEN "selecting_task" ELSE "confirm_more"
    /\ UNCHANGED <<now, gvars, ivars, cvars, grouped_entries, assignments, selected_groups,
                   cached_projects, selected_tasks, user_prefs, task_picked, submission>>

\* CeloxisData::select_tasks, then `if celoxis.selected_tasks.is_empty()
\* { continue }` of main.  choice 0 is a task prompt that returns Err
\* (cancelled, or without options), which `if let Ok` drops.
SelectTasks ==
    /\ pc = "selecting_task"
    /\ LET project == selected_project[1]
       IN  \E force_refresh \in
                 (IF get_cached_tasks(cache, project.id) # None THEN BOOLEAN ELSE {TRUE}) :
             \E r \in get_tasks_results(project.id, force_refresh) :
               /\ cache' = r.cache
               /\ disk' = r.disk
               /\ now' = r.now
               /\ IF ~r.ret.ok
                  THEN /\ pc' = "error"
                       /\ UNCHANGED <<selected_tasks, task_picked, selected_groups,
                                      skipped>>
                  ELSE LET tasks == sort_by_lower_name(r.ret.value[1])
                       IN  \E choice \in 0..Len(tasks) :
                             /\ selected_tasks' =
                                  IF choice = 0 THEN selected_tasks
                                  ELSE <<tasks[position(tasks, Label(tasks[choice]))]>>
                             /\ IF selected_tasks' = <<>>
                                THEN /\ pc' = "pooling"
                                     /\ EndIteration
                                ELSE /\ pc' = "entering_summary"
                                     /\ task_picked' = (choice # 0)
                                     /\ UNCHANGED <<selected_groups, skipped>>
    /\ UNCHANGED <<gvars, ivars, ret, grouped_entries, assignments,
                   cached_projects, selected_project, user_prefs, submission>>

\* main, from the summary prompt to grouped_entries.retain: the assignment
\* is built from the groups picked, the project and the task, and pushed.
RecordAssignment ==
    /\ pc = "entering_summary"
    /\ \E summary \in Summaries :
          assignments' = Append(assignments,
                                TaskAssignment(selected_groups, selected_project[1],
                                               selected_tasks[1], summary,
                                               user_prefs[1]))
    /\ grouped_entries' = retain_unselected(grouped_entries, selected_groups)
    /\ pc' = "confirm_more"
    /\ UNCHANGED <<now, gvars, ivars, cvars, selected_groups, skipped, cached_projects,
                   selected_project, selected_tasks, user_prefs, task_picked, submission>>

\* `if !grouped_entries.is_empty()` with the "Assign more entries to tasks?"
\* prompt at the end of the loop body.
ConfirmMore ==
    /\ pc = "confirm_more"
    /\ IF grouped_entries = <<>>
       THEN pc' = "pooling"
       ELSE \E continue_processing \in BOOLEAN :
               pc' = IF continue_processing THEN "pooling" ELSE "review"
    /\ EndIteration
    /\ UNCHANGED <<now, gvars, ivars, cvars, grouped_entries, assignments,
                   cached_projects, selected_project, selected_tasks, user_prefs,
                   submission>>

\* A prompt whose Err is propagated with `?` returns Err (interrupted, I/O):
\* the group, project, refresh, summary, continue and submit prompts.
PromptFails ==
    /\ \/ pc = "pooling" /\ grouped_entries # <<>>
       \/ pc = "selecting_project"
       \/ pc = "selecting_task"
            /\ get_cached_tasks(cache, selected_project[1].id) # None
       \/ pc = "entering_summary"
       \/ pc = "confirm_more" /\ grouped_entries # <<>>
       \/ pc = "review" /\ assignments # <<>>
    /\ pc' = "error"
    /\ UNCHANGED <<now, gvars, ivars, cvars, grouped_entries, assignments, selected_groups,
                   skipped, cached_projects, selected_project, selected_tasks,
                   user_prefs, task_picked, submission>>

\* date.format("%Y-%m-%d") for a date of 1970 (not a leap year): the year,
\* the month and the day of the month of day number d.
DaysBeforeMonth == <<0, 31, 59, 90, 120, 151, 181, 212, 243, 273, 304, 334, 365>>
format_date(d) ==
    LET month == CHOOSE k \in 1..12 : DaysBeforeMonth[k] <= d /\ d < DaysBeforeMonth[k + 1]
    IN  <<1970, month, d - DaysBeforeMonth[month] + 1>>
\* Hours cut to hundredths instead of rounded.
truncated_hours(duration) ==
    IF duration >= 0 THEN (10 * duration) \div 6 ELSE -((10 * (-duration)) \div 6)
\* ((duration as f64 / 60.0) * 100.0).round() / 100.0, in hundredths of an
\* hour; f64::round rounds half away from zero.
round_hours(duration) ==
    IF duration >= 0 THEN (10 * duration + 3) \div 6
    ELSE -((10 * (-duration) + 3) \div 6)
CeloxisTimeEntry(assignment, date) ==
    [date |-> format_date(date),
     hours |-> round_hours(assignment.total_duration[date]),
     time_code |-> assignment.time_code,
     user |-> assignment.user,
     task |-> assignment.celoxis_task.id,
     state |-> 0,
     comments |-> assignment.summary]
\* TaskAssignment::to_celoxis_entries: one record per key of total_duration,
\* in the iteration order of the HashMap, which is any order.
to_celoxis_entries(assignment) ==
    { [i \in 1..Len(order) |-> CeloxisTimeEntry(assignment, order[i])] :
      order \in Orderings(DOMAIN assignment.total_duration) }
\* all_entries.extend(celoxis_entries) over the assignments in order.
RECURSIVE all_entries(_)
all_entries(list) ==
    IF list = <<>> THEN { <<>> }
    ELSE { head \o tail : head \in all_entries(SubSeq(list, 1, Len(list) - 1)),
                          tail \in to_celoxis_entries(list[Len(list)]) }
\* What the remote does with POST /timeEntries.
SubmitResponses == {"success", "rejected", "unreachable"}
\* CeloxisApi::submit_time_entries: Ok only for a response with a success
\* status.
submit_time_entries(response) == response = "success"

\* The review and submit phase after the loop: without assignments main
\* returns Ok(()) at once; else the "Submit all assignments to Celoxis?"
\* prompt, the batch, the POST, and Ok(()) whatever submit_time_entries
\* returned (its Err is printed by the match at the end of main).
Review ==
    /\ pc = "review"
    /\ IF assignments = <<>>
       THEN /\ pc' = "done"
            /\ UNCHANGED submission
       ELSE \E confirm_submit \in BOOLEAN :
              IF ~confirm_submit
              THEN /\ pc' = "done"
                   /\ UNCHANGED submission
              ELSE \E batch \in all_entries(assignments) :
                     \E response \in SubmitResponses :
                        /\ submission' = Some([entries |-> batch,
                                               response |-> response,
                                               ok |-> submit_time_entries(response)])
                        /\ pc' = "done"
    /\ UNCHANGED <<now, gvars, ivars, cvars, grouped_entries, assignments, selected_groups,
                   skipped, cached_projects, selected_project, selected_tasks,
                   user_prefs, task_picked>>

Next ==
    \/ LoopExit
    \/ SelectGroups
    \/ SelectProject
    \/ SelectTasks
    \/ RecordAssignment
    \/ ConfirmMore
    \/ PromptFails
    \/ Review

Spec == MainInit /\ [][Next]_vars

\* The user who does not cancel prompts forever: a project is chosen at the
\* project prompt, and a task at the task prompt, in the end; main itself
\* always takes its next step.
ChooseProject == SelectProject /\ ~skipped'
ChooseTask == SelectTasks /\ task_picked'
\* The runs of main on the whole export, on a machine set to UTC, with
\* every project listed by the remote in the order of the ids and the pool
\* in the order of the tag vectors' lengths.
LiveInit ==
    /\ MainInit
    /\ Len(entries) = MaxMainEntries
    /\ tz = 0
    /\ Len(cached_projects[1]) = Cardinality(ProjectUniverse)
    /\ cached_projects[1][1].id = "p1"
    /\ \A i, j \in 1..Len(grouped_entries) :
          i < j => Len(grouped_entries[i].tags) < Len(grouped_entries[j].tags)
SpecLive ==
    /\ LiveInit
    /\ [][Next]_vars
    /\ WF_vars(Next)
    /\ SF_vars(ChooseProject)
    /\ SF_vars(ChooseTask)

\* ----------------------------------------------- properties of grouping
\* Helpers used only to state the properties.
InCell(g, d, e) ==
    d \in DOMAIN g.entries /\ \E j \in 1..Len(g.entries[d]) : g.entries[d][j] = e
Contains(g, e) == \E d \in DOMAIN g.entries : InCell(g, d, e)
Occurrences(G, e) ==
    UNION { UNION { { <<g, d, j>> : j \in { j \in 1..Len(g.entries[d]) :
                                            g.entries[d][j] = e } } :
                    d \in DOMAIN g.entries } : g \in G }
CountTag(tags, t) == Cardinality({ i \in 1..Len(tags) : tags[i] = t })
SameTagBag(a, b) ==
    \A t \in { a[i] : i \in 1..Len(a) } \cup { b[i] : i \in 1..Len(b) } :
        CountTag(a, t) = CountTag(b, t)
MinutesTowardZero(secs) ==
    IF secs >= 0 THEN secs \div 60 ELSE -((-secs) \div 60)
RECURSIVE SumOver(_, _, _)
SumOver(I, es, clock) ==
    IF I = {} THEN 0
    ELSE LET i == CHOOSE x \in I : TRUE
             end == IF es[i].end = None THEN clock ELSE es[i].end[1]
         IN  MinutesTowardZero(end - es[i].start) + SumOver(I \ {i}, es, clock)
Permute(es, p) == [i \in 1..Len(es) |-> es[p[i]]]
\* The cells of a result with the order inside a cell forgotten.
CellView(G) ==
    UNION { { [tags |-> g.tags, date |-> d,
               members |-> { g.entries[d][j] : j \in 1..Len(g.entries[d]) },
               minutes |-> g.total_duration[d]] : d \in DOMAIN g.entries } :
            g \in G }
IsOpen(e) == e.end = None
AllClosed(es) == \A i \in 1..Len(es) : ~IsOpen(es[i])

\* C1: the output of group_entries_by_tags is a partition of its input:
\* every input entry occurs at exactly one position of exactly one
\* (group, date) cell, no cell holds an entry that was not passed in, and the
\* entries with an empty tag vector are kept, all in one group whose tag
\* vector is empty.
C1_Partition ==
    grouped # None =>
        LET G == grouped[1].groups
        IN  /\ \A i \in 1..Len(entries) :
                    Cardinality(Occurrences(G, entries[i])) = 1
            /\ \A g \in G : \A d \in DOMAIN g.entries :
                    \A j \in 1..Len(g.entries[d]) :
                        \E i \in 1..Len(entries) : entries[i] = g.entries[d][j]
            /\ \A g \in G : DOMAIN g.total_duration = DOMAIN g.entries
            /\ \A i \in 1..Len(entries) :
                    entries[i].tags = <<>> =>
                        \A g \in G : Contains(g, entries[i]) <=> g.tags = <<>>

C1_Witness ==
    /\ grouped # None
    /\ Len(entries) = 2
    /\ entries[1].tags = <<>> /\ entries[2].tags = <<>>
    /\ to_local_date(entries[1].start, tz) = to_local_date(entries[2].start, tz)
    /\ \E g \in grouped[1].groups :
            g.tags = <<>> /\ Contains(g, entries[1]) /\ Contains(g, entries[2])

\* C2: grouping does not depend on the order of the input: when every entry
\* has an end, grouping any permutation of the entries gives the same groups,
\* the same set of entries in every (group, date) cell and the same minutes.
C2_OrderIndependent ==
    (grouped # None /\ AllClosed(entries)) =>
        \A p \in Permutations(1..Len(entries)) :
            LET H == group_entries_by_tags(Permute(entries, p), grouped[1].at, tz)
            IN  /\ { h.tags : h \in H } = { g.tags : g \in grouped[1].groups }
                /\ Cardinality(H) = Cardinality(grouped[1].groups)
                /\ CellView(H) = CellView(grouped[1].groups)

C2_Witness ==
    /\ grouped # None /\ AllClosed(entries)
    /\ Len(entries) = 2
    /\ entries[1].start # entries[2].start
    /\ \E g \in grouped[1].groups : Contains(g, entries[1]) /\ Contains(g, entries[2])

\* C3: two entries are in the same output group exactly when their tag
\* vectors hold the same tags the same number of times (equal once sorted);
\* so [a,b] and [b,a] share a group while [a] and [a,a] do not.
C3_SameGroupIffSortedTagsEqual ==
    grouped # None =>
        \A i, j \in 1..Len(entries) :
            (\E g \in grouped[1].groups :
                Contains(g, entries[i]) /\ Contains(g, entries[j]))
            <=> SameTagBag(entries[i].tags, entries[j].tags)

C3_Witness ==
    /\ grouped # None
    /\ Len(entries) = 2
    /\ entries[1].tags = <<1, 2>> /\ entries[2].tags = <<2, 1>>
    /\ Cardinality(grouped[1].groups) = 1

\* C4: in every (group, date) cell total_duration[date] is the sum over the
\* cell's entries of end - start in whole minutes, each truncated toward
\* zero (an entry without end is timed to the clock of the call); an entry
\* with start = end adds 0 minutes and its group and date cell exist.
C4_CellMinutes ==
    grouped # None =>
        LET G == grouped[1].groups
        IN  /\ \A g \in G : \A d \in DOMAIN g.total_duration :
                    g.total_duration[d] =
                        SumOver({ i \in 1..Len(entries) : InCell(g, d, entries[i]) },
                                entries, grouped[1].at)
            /\ \A i \in 1..Len(entries) :
                    entries[i].end = Some(entries[i].start) =>
                        \E g \in G : \E d \in DOMAIN g.total_duration :
                            /\ InCell(g, d, entries[i])
                            /\ (Len(g.entries[d]) = 1 => g.total_duration[d] = 0)

C4_Witness ==
    /\ grouped # None
    /\ Len(entries) = 2
    /\ entries[1].end = Some(entries[1].start)
    /\ entries[2].end = Some(entries[2].start + 90)
    /\ \E g \in grouped[1].groups : \E d \in DOMAIN g.total_duration :
            /\ InCell(g, d, entries[1]) /\ InCell(g, d, entries[2])
            /\ g.total_duration[d] = 1

\* One open entry grouped k whole minutes after its start is given k minutes.
OpenEntryMinutes ==
    /\ (grouped # None /\ Len(entries) = 1 /\ IsOpen(entries[1])
            /\ grouped[1].at >= entries[1].start
            /\ (grouped[1].at - entries[1].start) % 60 = 0) =>
          \A g \in grouped[1].groups : \A d \in DOMAIN g.total_duration :
              g.total_duration[d] = (grouped[1].at - entries[1].start) \div 60
    /\ \A k \in {30, 60} : \A off \in TzOffsets :
          \A g \in group_entries_by_tags(
                      <<TimeEntry(0, [start |-> NowStart, end |-> None], <<>>)>>,
                      NowStart + k * 60, off) :
              \A d \in DOMAIN g.total_duration : g.total_duration[d] = k
\* Regrouping later never lowers the minutes of a cell.
NeverDecreases ==
    (grouped # None /\ earlier # None) =>
        /\ grouped[1].at >= earlier[1].at
        /\ \A g1 \in earlier[1].groups : \A d \in DOMAIN g1.total_duration :
              \E g2 \in grouped[1].groups :
                  /\ g2.tags = g1.tags
                  /\ d \in DOMAIN g2.total_duration
                  /\ g2.total_duration[d] >= g1.total_duration[d]
\* The entries in I have cells with more minutes than at the earlier call.
CellsIncreased(I) ==
    \A i \in I :
        \A g1 \in earlier[1].groups : \A g2 \in grouped[1].groups :
            \A d \in DOMAIN g1.total_duration :
                (InCell(g1, d, entries[i]) /\ InCell(g2, d, entries[i])) =>
                    g2.total_duration[d] > g1.total_duration[d]
AMinuteLater ==
    grouped # None /\ earlier # None /\ grouped[1].at - earlier[1].at >= 60

\* C5 as stated: an entry without end is timed against the clock of the
\* call (k minutes when grouped k minutes after its start, 30 at 30 and 60 at
\* 60); regrouping later never lowers a cell, and raises the cell of every
\* open entry once a full minute has passed.
C5_OpenEntryGrows_AsStated ==
    /\ OpenEntryMinutes
    /\ NeverDecreases
    /\ AMinuteLater =>
          CellsIncreased({ i \in 1..Len(entries) : IsOpen(entries[i]) })

\* C5 amended: as above, but a full minute raises the cell of every open
\* entry that had already started at the earlier call (an open entry whose
\* start lies after that clock can stay at 0 minutes, since minutes are
\* truncated toward zero).
C5_OpenEntryGrows ==
    /\ OpenEntryMinutes
    /\ NeverDecreases
    /\ AMinuteLater =>
          CellsIncreased({ i \in 1..Len(entries) :
                            IsOpen(entries[i]) /\ entries[i].start <= earlier[1].at })

C5_Witness ==
    /\ AMinuteLater
    /\ Len(entries) = 2
    /\ IsOpen(entries[1]) /\ entries[1].start <= earlier[1].at
    /\ IsOpen(entries[2]) /\ entries[2].start > earlier[1].at
    /\ \E g1 \in earlier[1].groups : \E g2 \in grouped[1].groups :
          \E d \in DOMAIN g1.total_duration :
            /\ InCell(g1, d, entries[1]) /\ InCell(g2, d, entries[1])
            /\ g1.total_duration[d] = 1 /\ g2.total_duration[d] = 2

\* ------------------------------------------------ properties of the cache
Ids(data) == { data[i].id : i \in 1..Len(data) }
IsCall(op) == ret.op = op
\* The latest call returned Ok after changing the cache.
MutatedOk ==
    /\ ret.ok
    /\ \/ (ret.op \in {"get_projects", "get_tasks"} /\ ret.fetched = 1)
       \/ (ret.op = "ensure_user_prefs" /\ ~ret.cached)

\* C6: get_projects(force_refresh = false) on a loaded cache that holds no
\* projects sends exactly one remote request, stores the fetched projects in
\* the cache and returns them.
C6_ColdCacheFetches ==
    (IsCall("get_projects") /\ ~ret.force_refresh /\ ~ret.cached /\ ret.ok) =>
        /\ ret.fetched = 1
        /\ ret.response # None
        /\ ret.value = ret.response
        /\ DOMAIN cache[1].projects = Ids(ret.response[1])

\* C7: after a get_projects that fetched and returned Ok, the cached project
\* map holds exactly the projects of the response, each under its id (no
\* project cached before and absent from the response is left), and the
\* call returns the response; a call that is not forced while the cache
\* holds projects returns the cached projects and sends no request.
C7_FetchReplacesProjects ==
    /\ (IsCall("get_projects") /\ ret.ok /\ ret.fetched = 1) =>
          /\ cache # None
          /\ DOMAIN cache[1].projects = Ids(ret.response[1])
          /\ \A id \in DOMAIN cache[1].projects :
                /\ cache[1].projects[id].id = id
                /\ cache[1].projects[id] \in Range(ret.response[1])
          /\ ret.value = ret.response
    /\ (IsCall("get_projects") /\ ~ret.force_refresh /\ ret.cached) =>
          /\ ret.ok
          /\ ret.fetched = 0
          /\ Range(ret.value[1]) = Range(cache[1].projects)
          /\ Len(ret.value[1]) = Cardinality(DOMAIN cache[1].projects)
    /\ (IsCall("get_projects") /\ ret.force_refresh) => ret.fetched = 1

\* A forced call made while projects were cached got an empty response: the
\* projects cached before are gone.
C7_Witness ==
    /\ IsCall("get_projects") /\ ret.ok /\ ret.fetched = 1 /\ ret.cached
    /\ ret.response = Some(<<>>)
    /\ cache[1].projects = <<>>
    /\ DOMAIN cache[1].tasks # {}

\* C8: get_tasks(p, force_refresh) returns the cached list of p and sends no
\* request when it is not forced and p has a cached entry; otherwise it
\* sends one request and replaces the entry of p alone; in both cases the
\* cached task lists of the other project ids and the cached project map
\* stay as they were.
C8_GetTasksFrame ==
    [][ \A p \in ProjectIds : \A f \in BOOLEAN :
          (/\ ret'.op = "get_tasks" /\ ret'.project_id = p /\ ret'.force_refresh = f
           /\ GetTasks(p, f)) =>
            /\ cache'[1].projects = cache[1].projects
            /\ (DOMAIN cache'[1].tasks) \ {p} = (DOMAIN cache[1].tasks) \ {p}
            /\ \A q \in (DOMAIN cache[1].tasks) \ {p} :
                  cache'[1].tasks[q] = cache[1].tasks[q]
            /\ (~f /\ p \in DOMAIN cache[1].tasks) =>
                  /\ ret'.ok /\ ret'.fetched = 0
                  /\ ret'.value = Some(cache[1].tasks[p])
                  /\ cache' = cache
            /\ ~(~f /\ p \in DOMAIN cache[1].tasks) =>
                  /\ ret'.fetched = 1
                  /\ ret'.ok =>
                        /\ cache'[1].tasks[p] = ret'.response[1]
                        /\ ret'.value = ret'.response
      ]_vars

C8_Witness ==
    /\ IsCall("get_tasks") /\ ret.ok /\ ret.fetched = 1 /\ ret.cached
    /\ ret.project_id = "p1"
    /\ ret.response = Some(<<>>)
    /\ "p2" \in DOMAIN cache[1].tasks /\ cache[1].tasks["p2"] # <<>>
    /\ cache[1].tasks["p1"] = <<>>
    /\ DOMAIN cache[1].projects # {}

\* C9: after every cache-changing call that returns Ok (get_projects or
\* get_tasks that fetched, ensure_user_prefs that collected preferences),
\* in any sequence of calls, the cache file holds exactly the in-memory
\* cache: projects, tasks, last_updated and user_prefs.
C9_MutationsFlushed ==
    MutatedOk =>
        /\ cache # None
        /\ disk # None
        /\ disk[1].projects = cache[1].projects
        /\ disk[1].tasks = cache[1].tasks
        /\ disk[1].last_updated = cache[1].last_updated
        /\ disk[1].user_prefs = cache[1].user_prefs

C9_Witness ==
    /\ MutatedOk
    /\ IsCall("get_tasks")
    /\ cache[1].user_prefs # None
    /\ DOMAIN cache[1].projects = ProjectIds
    /\ cache[1].tasks[ret.project_id] # <<>>
    /\ cache[1].last_updated > NowStart
    /\ disk = cache

\* ------------------------------------------- properties of the main loop
\* C10: in every iteration of the assignment loop, also after an earlier
\* assignment was recorded, once the project prompt has been cancelled no
\* TaskAssignment is appended in that iteration and the pool stays as it was.
C10_SkipAbortsAttempt ==
    [][ skipped => (assignments' = assignments /\ grouped_entries' = grouped_entries)
      ]_vars

\* C11: in every iteration of the assignment loop, also after an earlier
\* assignment was recorded, when no task is chosen at the task prompt no
\* TaskAssignment is appended and the groups picked stay in the pool.
C11_NoTaskAbortsAttempt ==
    [][ ~task_picked => (assignments' = assignments
                          /\ grouped_entries' = grouped_entries)
      ]_vars

\* The minutes of group g on date d, 0 when g has no cell for d.
MinutesOn(g, d) == IF d \in DOMAIN g.total_duration THEN g.total_duration[d] ELSE 0
\* The minutes on date d summed over the groups at the positions I of S.
RECURSIVE SumGroups(_, _, _)
SumGroups(I, S, d) ==
    IF I = {} THEN 0
    ELSE LET i == CHOOSE x \in I : TRUE
         IN  MinutesOn(S[i], d) + SumGroups(I \ {i}, S, d)
DatesOf(S) == UNION { DOMAIN S[i].total_duration : i \in 1..Len(S) }
InSeq(x, seq) == \E i \in 1..Len(seq) : seq[i] = x
Last(seq) == seq[Len(seq)]

\* C12: recording an assignment for the groups S picked from the pool
\* appends one TaskAssignment last in the list; its total_duration has
\* exactly the dates of the groups of S and maps each to the sum of their
\* minutes for it (0 for a group without the date); every group of S leaves
\* the pool.
C12_RecordAssignment ==
    [][ (pc = "entering_summary" /\ pc' = "confirm_more") =>
          LET S == selected_groups
              a == Last(assignments')
          IN  /\ Len(assignments') = Len(assignments) + 1
              /\ SubSeq(assignments', 1, Len(assignments)) = assignments
              /\ a.groups = S
              /\ DOMAIN a.total_duration = DatesOf(S)
              /\ \A d \in DatesOf(S) :
                    a.total_duration[d] = SumGroups(1..Len(S), S, d)
              /\ \A i \in 1..Len(S) : ~InSeq(S[i], grouped_entries')
              /\ \A i \in 1..Len(grouped_entries') :
                    InSeq(grouped_entries'[i], grouped_entries)
      ]_vars

\* An assignment was recorded for two groups that share a date, one of them
\* with minutes on it.
C12_Witness ==
    /\ pc = "confirm_more"
    /\ assignments # <<>>
    /\ LET a == Last(assignments)
       IN  /\ Len(a.groups) = 2
           /\ \E d \in DOMAIN a.groups[1].total_duration :
                  /\ d \in DOMAIN a.groups[2].total_duration
                  /\ a.groups[1].total_duration[d] > 0
                  /\ a.total_duration[d] = a.groups[1].total_duration[d]
                                            + a.groups[2].total_duration[d]
           /\ \A i \in 1..2 : ~InSeq(a.groups[i], grouped_entries)

\* The number of records of the batch that come before those of assignment k.
RECURSIVE RecordsBefore(_, _)
RecordsBefore(list, k) ==
    IF k <= 1 THEN 0
    ELSE RecordsBefore(list, k - 1) + Cardinality(DOMAIN list[k - 1].total_duration)
\* h hundredths of an hour is the multiple of 0.01 h nearest to m minutes.
NearestHundredth(h, m) ==
    LET diff == 100 * m - 60 * h
    IN  -30 <= diff /\ diff <= 30
\* Record r is the remote record of assignment a for day number d of
\* January 1970.
RecordOf(r, a, d) ==
    /\ r.date = <<1970, 1, d + 1>>
    /\ NearestHundredth(r.hours, a.total_duration[d])
    /\ r.task = a.celoxis_task.id
    /\ r.time_code = a.time_code
    /\ r.user = a.user
    /\ r.comments = a.summary
    /\ r.state = 0

\* C13: the batch posted is the concatenation, over the assignments in
\* order, of the output of to_celoxis_entries: for each assignment one
\* record per date of its total_duration and no other, holding that date,
\* the hours (minutes / 60 rounded to hundredths: 90 -> 1.50, 45 -> 0.75),
\* the task id, time-code, user and summary of the assignment and state 0.
C13_OneRecordPerDate ==
    /\ round_hours(90) = 150 /\ round_hours(45) = 75
    /\ submission # None =>
          LET batch == submission[1].entries
          IN  /\ Len(batch) = RecordsBefore(assignments, Len(assignments) + 1)
              /\ \A k \in 1..Len(assignments) :
                    LET a == assignments[k]
                        first == RecordsBefore(assignments, k) + 1
                        last == RecordsBefore(assignments, k + 1)
                    IN  /\ \A d \in DOMAIN a.total_duration :
                              Cardinality({ i \in first..last :
                                              RecordOf(batch[i], a, d) }) = 1
                        /\ \A i \in first..last :
                              \E d \in DOMAIN a.total_duration :
                                  RecordOf(batch[i], a, d)

\* A batch of two records for two different dates was posted, one record
\* for a cell of 1 minute (0.02 h).
C13_Witness ==
    /\ submission # None
    /\ Len(submission[1].entries) = 2
    /\ submission[1].entries[1].date # submission[1].entries[2].date
    /\ \E i \in 1..2 : submission[1].entries[i].hours = 2

\* C15: every error that is not a parse error ends the run in an error
\* outcome; a time-entry submission that the remote did not answer with a
\* success status never ends in the normal exit of main.
C15_SubmitFailureEndsInError ==
    (submission # None /\ submission[1].response # "success") => pc = "error"

WellFormed(record) == record \in WellFormedRecords
\* The positions of the well-formed records of an export.
WellFormedAt(records) == { i \in 1..Len(records) : WellFormed(records[i]) }

\* C14: when the export holds malformed interval records among well-formed
\* ones, reading the entries skips only the offending records: the call
\* succeeds, the run goes on, and there is one TimeEntry for every
\* well-formed record, with its start and end, in export order.
C14_MalformedRecordsSkipped ==
    (/\ time_entries # None
     /\ WellFormedAt(export) # {}
     /\ WellFormedAt(export) # 1..Len(export)) =>
        /\ time_entries[1].ok
        /\ pc # "error"
        /\ Len(entries) = Cardinality(WellFormedAt(export))
        /\ \A i \in WellFormedAt(export) :
              \E k \in 1..Len(entries) :
                  /\ k = Cardinality({ j \in WellFormedAt(export) : j <= i })
                  /\ entries[k].start = export[i].start.instant
                  /\ entries[k].end = IF export[i].end.type = "absent" THEN None
                                      ELSE Some(export[i].end.instant)

IncStart == <<"i", "n", "c", " ", "T0900">>
\* `inc <start> -`, alone or followed by tags after `#`.
OpenLines ==
    { IncStart \o <<" ", "-">> \o tags :
      tags \in { <<>>, <<" ", "#", " ", "\"", "a", "\"">> } }
\* `inc <start> - <end> # "a" "b"`
ClosedLine ==
    IncStart \o <<" ", "-", " ", "T1100", " ", "#", " ",
                  "\"", "a", "\"", " ", "\"", "b", "\"">>

\* C16: from_timewarrior accepts a line whose end is empty: for
\* `inc <start> -`, with or without tags after `#`, it returns Ok with the
\* start parsed and end = None; for the closed line
\* `inc <start> - <end> # "t1" "t2"` it returns Ok with both instants, the
\* tags [t1, t2] in order, and 120 minutes from 09:00 to 11:00.
C16_OpenLineParses ==
    parsed # None =>
        /\ line \in OpenLines =>
              /\ parsed[1].ok
              /\ parsed[1].value[1].start = StampInstant("T0900")
              /\ parsed[1].value[1].end = None
        /\ line = ClosedLine =>
              /\ parsed[1].ok
              /\ parsed[1].value[1].start = StampInstant("T0900")
              /\ parsed[1].value[1].end = Some(StampInstant("T1100"))
              /\ parsed[1].value[1].tags = << <<"a">>, <<"b">> >>
              /\ num_minutes(StampInstant("T1100") - StampInstant("T0900")) = 120

\* The groups main starts the loop with: the grouping of the entries read.
InitialGroups == group_entries_by_tags(entries, NowStart, tz)
\* The loop is over: main is in the review phase or has returned.
LoopOver == pc \in {"review", "done", "error"}

DistinctTags(pool) ==
    \A i, j \in 1..Len(pool) : pool[i].tags = pool[j].tags => i = j

\* C18: the groups in the pool always have pairwise distinct tag vectors,
\* so the removal by tag-vector equality removes exactly the groups picked
\* and no other group of the pool.
C18_RemovalExact ==
    /\ [] DistinctTags(grouped_entries)
    /\ [][ (pc = "entering_summary" /\ pc' = "confirm_more") =>
              /\ \A i \in 1..Len(grouped_entries) :
                    InSeq(grouped_entries[i], grouped_entries')
                    <=> ~InSeq(grouped_entries[i], selected_groups)
              /\ Len(grouped_entries') = Len(grouped_entries) - Len(selected_groups)
       ]_vars

\* The group tagged [a] was assigned and removed while the group tagged
\* [a, b], which shares its first tag, is still in the pool.
C18_Witness ==
    /\ pc = "confirm_more"
    /\ Len(assignments) = 1
    /\ Len(assignments[1].groups) = 1
    /\ assignments[1].groups[1].tags = <<1>>
    /\ Len(grouped_entries) = 1
    /\ grouped_entries[1].tags = <<1, 2>>

\* How many times group g occurs in the pool and in the assignments.
InPool(g) == Cardinality({ i \in 1..Len(grouped_entries) : grouped_entries[i] = g })
InAssignments(g) ==
    Cardinality({ <<k, i>> \in (1..Len(assignments)) \X (1..MaxMainEntries + 1) :
                    i <= Len(assignments[k].groups) /\ assignments[k].groups[i] = g })
RECURSIVE SetMinutes(_, _)
SetMinutes(G, d) ==
    IF G = {} THEN 0
    ELSE LET g == CHOOSE x \in G : TRUE
         IN  MinutesOn(g, d) + SetMinutes(G \ {g}, d)

\* C19: after any number of iterations every group of the initial grouping
\* is either in the pool or in exactly one recorded assignment, never in
\* both nor in two assignments, and nothing else is in either; so for every
\* date the minutes of the pool plus the minutes of the assignments are the
\* minutes of the initial grouping.
C19_GroupsConserved ==
    LET initial == InitialGroups
    IN  /\ \A g \in initial : InPool(g) + InAssignments(g) = 1
        /\ \A i \in 1..Len(grouped_entries) : grouped_entries[i] \in initial
        /\ \A k \in 1..Len(assignments) : \A i \in 1..Len(assignments[k].groups) :
              assignments[k].groups[i] \in initial
        /\ \A d \in UNION { DOMAIN g.total_duration : g \in initial } :
              SumGroups(1..Len(grouped_entries), grouped_entries, d)
              + SumGroups(1..Len(assignments), assignments, d)
              = SetMinutes(initial, d)

\* One of two groups was assigned, with minutes on its date, and the other
\* is back in the pool for the next iteration.
C19_Witness ==
    /\ pc = "pooling"
    /\ Cardinality(InitialGroups) = 2
    /\ Len(assignments) = 1
    /\ Len(grouped_entries) = 1
    /\ \E d \in DOMAIN assignments[1].total_duration :
          assignments[1].total_duration[d] > 0
====
